---- MODULE Spec2Model ----
(***************************************************************************)
(* OAuth token lifecycle of the SMS tutorial server (src/app.js): the      *)
(* state token registry (pendingStates), the token store (tokenStorage),   *)
(* refreshAccessToken / getValidAccessToken, the OAuth callback handler,   *)
(* the /api/send-sms handler, the auxiliary endpoints and the sweep timer. *)
(*                                                                         *)
(* Node runs one handler segment at a time: a handler is atomic from its   *)
(* entry (or from the resolution of the promise it awaits) to its next     *)
(* await of a network call or to its response.  Each such segment is one   *)
(* action.  Time is Date.now() in milliseconds.                            *)
(***************************************************************************)
EXTENDS Integers, FiniteSets, Sequences, Bags, TLC

(* ------------------------------ bounds -------------------------------- *)
\* number of handlers that can be in flight at the same time
MaxInflight == 2
\* number of state tokens crypto.randomBytes hands out in one run
MaxStates == 2
\* number of distinct token values the provider hands out
MaxTok == 1
\* Date.now() when the module is loaded
StartTime == 1000000
\* number of times the sweep timer fires in one run
MaxSweeps == 4
\* number of handlers in flight at the same time while the timer is followed
MaxTimerInflight == 1

(* ------------------------- program constants -------------------------- *)
\* null / undefined of a token, a state or an expiry (all falsy)
Null == 0
\* a field the provider's response does not carry
Undefined == -1
MarginSec == 60
DefaultExpiresIn == 3600
StateTtlMs == 10 * 60 * 1000
SweepIntervalMs == 5 * 60 * 1000

(* ------------------------------ inputs -------------------------------- *)
\* offsets from StartTime of the instants at which something is observed
Offsets == {0, 600000, 3540000}
Instants == {StartTime + d : d \in Offsets}
\* the instants observed when the sweep timer is followed firing by firing:
\* the instants at which it fires, and one between two firings
TimerInstants == {StartTime + (k * SweepIntervalMs) : k \in 0..MaxSweeps}
                    \cup {StartTime + StateTtlMs + 120000}
\* expires_in of a provider response; Undefined when the field is missing
ExpiresIn == {Undefined, 0, 60, 3600}
TokenIds == 1..MaxTok
StateIds == 1..MaxStates
\* tokenResponse.token of a successful provider response; the tokens are
\* opaque and are named by the response that carries them, and the refresh
\* token may be missing
Responses == {r \in [access_token : TokenIds,
                     refresh_token : TokenIds \cup {Null},
                     expires_in : ExpiresIn] :
                 r.refresh_token \in {Null, r.access_token}}
\* a nominal response, used where the provider rejected the request
NoResponse == [access_token |-> Null, refresh_token |-> Null, expires_in |-> Undefined]
\* outcome of a messaging-API call: HTTP status, or 0 for a network error
SmsResults == {200, 401, 500, 0}
\* req.body of /api/send-sms
SendInputs == {"ok", "missing", "badphone"}

VARIABLES now, pendingStates, issued, tokenStorage, inflight, lastSweep,
          stored, passed, swept, out

vars == <<now, pendingStates, issued, tokenStorage, inflight, lastSweep,
          stored, passed, swept, out>>

(* --------------------------- token store ------------------------------ *)
\* JavaScript truthiness of a number-or-absent value
Truthy(x) == x # Null /\ x # Undefined

SetTokens_KeepRefresh(ts, tokenResponse, t) ==
    LET expiresIn == IF Truthy(tokenResponse.expires_in)
                     THEN tokenResponse.expires_in ELSE DefaultExpiresIn
    IN [accessToken |-> tokenResponse.access_token,
        refreshToken |-> IF Truthy(tokenResponse.refresh_token)
                         THEN tokenResponse.refresh_token ELSE ts.refreshToken,
        expiresAt |-> t + ((expiresIn - MarginSec) * 1000)]

\* tokenStorage.setTokens(tokenResponse) executed at time t
SetTokens(ts, tokenResponse, t) ==
    LET expiresIn == IF Truthy(tokenResponse.expires_in)
                     THEN tokenResponse.expires_in ELSE DefaultExpiresIn
    IN [accessToken |-> tokenResponse.access_token,
        refreshToken |-> tokenResponse.refresh_token,
        expiresAt |-> t + ((expiresIn - MarginSec) * 1000)]

\* tokenStorage.isTokenValid() evaluated at time t
IsTokenValid(ts, t) ==
    Truthy(ts.accessToken) /\ Truthy(ts.expiresAt) /\ t < ts.expiresAt

GetAccessToken_Stale(ts, t) == ts.accessToken

\* tokenStorage.getAccessToken() evaluated at time t
GetAccessToken(ts, t) ==
    IF IsTokenValid(ts, t) THEN ts.accessToken ELSE Null

ClearTokens_AccessOnly(ts) ==
    [accessToken |-> Null, refreshToken |-> ts.refreshToken, expiresAt |-> ts.expiresAt]

ClearTokens_KeepExpiry(ts) ==
    [accessToken |-> Null, refreshToken |-> Null, expiresAt |-> ts.expiresAt]

ClearTokens_KeepAccess(ts) ==
    [accessToken |-> ts.accessToken, refreshToken |-> Null, expiresAt |-> Null]

ClearTokens_KeepRefresh(ts) ==
    [accessToken |-> Null, refreshToken |-> ts.refreshToken, expiresAt |-> Null]

\* tokenStorage.clearTokens()
ClearTokens(ts) ==
    [accessToken |-> Null, refreshToken |-> Null, expiresAt |-> Null]

AfterExchange_ClearOnFail(ts, ok, r, t) ==
    IF ok THEN SetTokens(ts, r, t) ELSE ClearTokens(ts)

\* the store after the try/catch around the code exchange: setTokens on
\* success, untouched when getToken rejected
AfterExchange(ts, ok, r, t) ==
    IF ok THEN SetTokens(ts, r, t) ELSE ts

AfterSms_ClearOnError(ts, result) ==
    IF result # 200 THEN ClearTokens(ts) ELSE ts

\* the store after the try/catch around the messaging call of /api/send-sms:
\* cleared on a 401, untouched on success and on every other failure
AfterSms(ts, result) ==
    IF result = 401 THEN ClearTokens(ts) ELSE ts

HasCode_Always(code) == TRUE

\* the test of req.query.code; code tells whether the query carries one
HasCode(code) == code

\* what setTokens was given for the record now in the store (history)
NotStored == [at |-> Null, expires_in |-> Undefined]
StoredAt(r, t) == [at |-> t, expires_in |-> r.expires_in]

(* ----------------- refreshAccessToken / getValidAccessToken ----------- *)
CanRefresh_Always(ts) == TRUE

\* refreshAccessToken: the guard on the stored refresh token
CanRefresh(ts) == Truthy(ts.refreshToken)

NeedsRefresh_Always(ts, t) == TRUE

\* getValidAccessToken: the cached token is not served
NeedsRefresh(ts, t) == ~IsTokenValid(ts, t)

(* ------------------------ state token registry ------------------------ *)
\* generateAuthUrl at time t: state n is the next output of randomBytes
GenerateAuthUrl_NoStore(ps, n, t) == ps

GenerateAuthUrl(ps, n, t) == (n :> [timestamp |-> t]) @@ ps

HasState_MissingOk(ps, st) == st = Null \/ st \in DOMAIN ps

\* the callback's state check: receivedState && pendingStates.has(receivedState)
HasState(ps, st) == Truthy(st) /\ st \in DOMAIN ps

DeleteState_Keep(ps, st) == ps

\* pendingStates.delete(state)
DeleteState(ps, st) == [x \in (DOMAIN ps) \ {st} |-> ps[x]]

IsStale_Eager(data, t) == t - data.timestamp >= StateTtlMs

IsStale_Slack(data, t) == t - data.timestamp > StateTtlMs + SweepIntervalMs

IsStale_Late(data, t) == t - data.timestamp > StateTtlMs * 1000

ConsumeState_IfCode(ps, st, code) ==
    IF code THEN DeleteState(ps, st) ELSE ps

\* the registry once the callback's state check has passed: the state is
\* deleted before req.query.code is looked at
ConsumeState(ps, st, code) == DeleteState(ps, st)

\* the sweep's test on one entry
IsStale(data, t) == t - data.timestamp > StateTtlMs

\* the registry after the sweep callback ran at time t
SweepStates(ps, t) ==
    [x \in {s \in DOMAIN ps : ~IsStale(ps[s], t)} |-> ps[x]]

(* ----------------------------- handlers ------------------------------- *)
\* a request being handled: which handler, the network call it awaits, the
\* bearer token of its messaging call, the refresh requests issued by the
\* getValidAccessToken call it is in (0 once that call has returned)
Handler(kind, pc, token, nRefresh) ==
    [kind |-> kind, pc |-> pc, token |-> token, nRefresh |-> nRefresh]

Begin(h) == inflight (+) SetToBag({h})
End(h) == inflight (-) SetToBag({h})
Move(h, g) == (inflight (-) SetToBag({h})) (+) SetToBag({g})
Awaiting(pc) == {h \in BagToSet(inflight) : h.pc = pc}

\* what the step just taken did: the operation, the HTTP status it answered
\* (0: none yet), the state a callback presented, whether getValidAccessToken
\* was called / returned in it and with what, the refresh requests that call
\* has issued, and the provider's answer it handled
Ev(op) == [op |-> op, status |-> 0, state |-> Null,
           call |-> FALSE, retd |-> FALSE, ret |-> Null, nRefresh |-> 0,
           ok |-> FALSE, tok |-> Null]

Init ==
    /\ now = StartTime
    /\ pendingStates = GenerateAuthUrl(<<>>, 1, StartTime)
    /\ issued = 1
    /\ tokenStorage = [accessToken |-> Null, refreshToken |-> Null, expiresAt |-> Null]
    /\ inflight = EmptyBag
    /\ lastSweep = StartTime
    /\ stored = NotStored
    /\ passed = [s \in StateIds |-> 0]
    /\ swept = {}
    /\ out = Ev("start")

\* the clock moves on
Tick(t) ==
    /\ t > now
    /\ now' = t
    /\ out' = Ev("tick")
    /\ UNCHANGED <<pendingStates, issued, tokenStorage, inflight, lastSweep,
                   stored, passed, swept>>

\* the clock moves on while setInterval is on time: it does not pass the
\* instant at which the next sweep is due before that sweep has run
TimerTick(t) ==
    /\ t <= lastSweep + SweepIntervalMs
    /\ Tick(t)

\* the setInterval callback
Sweep ==
    /\ now - lastSweep >= SweepIntervalMs
    /\ lastSweep' = now
    /\ pendingStates' = SweepStates(pendingStates, now)
    /\ swept' = swept \cup {s \in DOMAIN pendingStates :
                                now - pendingStates[s].timestamp > StateTtlMs}
    /\ out' = Ev("sweep")
    /\ UNCHANGED <<now, issued, tokenStorage, inflight, stored, passed>>

\* GET /auth/new
AuthNew ==
    /\ issued < MaxStates
    /\ pendingStates' = GenerateAuthUrl(pendingStates, issued + 1, now)
    /\ issued' = issued + 1
    /\ out' = [Ev("auth-new") EXCEPT !.status = 200]
    /\ UNCHANGED <<now, tokenStorage, inflight, lastSweep, stored, passed, swept>>

\* GET /api/auth-status
AuthStatus ==
    /\ IF IsTokenValid(tokenStorage, now)
       THEN UNCHANGED <<pendingStates, issued>>
       ELSE /\ issued < MaxStates
            /\ pendingStates' = GenerateAuthUrl(pendingStates, issued + 1, now)
            /\ issued' = issued + 1
    /\ out' = [Ev("auth-status") EXCEPT !.status = 200]
    /\ UNCHANGED <<now, tokenStorage, inflight, lastSweep, stored, passed, swept>>

\* POST /api/re-authenticate
ReAuthenticate ==
    /\ issued < MaxStates
    /\ tokenStorage' = ClearTokens(tokenStorage)
    /\ stored' = NotStored
    /\ pendingStates' = GenerateAuthUrl(pendingStates, issued + 1, now)
    /\ issued' = issued + 1
    /\ out' = [Ev("re-authenticate") EXCEPT !.status = 200]
    /\ UNCHANGED <<now, inflight, lastSweep, passed, swept>>

\* GET /login/oauth2/code/goto, from its entry to the await of the code
\* exchange; st is req.query.state (Null: missing), code tells whether
\* req.query.code is present
CallbackStart(st, code) ==
    /\ BagCardinality(inflight) < MaxInflight
    /\ IF ~HasState(pendingStates, st)
       THEN /\ out' = [Ev("callback") EXCEPT !.state = st, !.status = 403]
            /\ UNCHANGED <<pendingStates, passed, inflight>>
       ELSE /\ pendingStates' = ConsumeState(pendingStates, st, code)
            /\ passed' = [s \in StateIds |-> IF s = st THEN passed[s] + 1 ELSE passed[s]]
            /\ IF ~HasCode(code)
               THEN /\ out' = [Ev("callback") EXCEPT !.state = st, !.status = 400]
                    /\ UNCHANGED inflight
               ELSE /\ out' = [Ev("callback") EXCEPT !.state = st]
                    /\ inflight' = Begin(Handler("callback", "exchange", Null, 0))
    /\ UNCHANGED <<now, issued, tokenStorage, lastSweep, stored, swept>>

\* the callback after oauthClient.getToken(tokenParams) settled: ok with
\* token response r, or rejected
ExchangeReturn(h, ok, r) ==
    /\ h.kind = "callback"
    /\ h.pc = "exchange"
    /\ tokenStorage' = AfterExchange(tokenStorage, ok, r, now)
    /\ IF ok
       THEN /\ stored' = StoredAt(r, now)
            /\ inflight' = Move(h, [h EXCEPT !.pc = "sms", !.token = r.access_token])
            /\ out' = [Ev("exchange") EXCEPT !.ok = TRUE, !.tok = r.access_token]
       ELSE /\ inflight' = End(h)
            /\ out' = [Ev("exchange") EXCEPT !.status = 500]
            /\ UNCHANGED stored
    /\ UNCHANGED <<now, pendingStates, issued, lastSweep, passed, swept>>

\* the callback after axios.request(options) settled with result
CallbackSmsReturn(h, result) ==
    /\ h.kind = "callback"
    /\ h.pc = "sms"
    /\ inflight' = End(h)
    /\ out' = [Ev("callback-sms") EXCEPT !.status = IF result = 200 THEN 200 ELSE 500]
    /\ UNCHANGED <<now, pendingStates, issued, tokenStorage, lastSweep,
                   stored, passed, swept>>

\* POST /api/send-sms, from its entry through getValidAccessToken to the
\* await of the refresh request or of the messaging call, or to its response
SendSmsStart(input) ==
    /\ BagCardinality(inflight) < MaxInflight
    /\ IF input # "ok"
       THEN /\ out' = [Ev("send-sms") EXCEPT !.status = 400]
            /\ UNCHANGED <<pendingStates, issued, inflight>>
       ELSE IF ~NeedsRefresh(tokenStorage, now)
       THEN LET accessToken == GetAccessToken(tokenStorage, now) IN
            IF Truthy(accessToken)
            THEN /\ inflight' = Begin(Handler("send", "sms", accessToken, 0))
                 /\ out' = [Ev("send-sms") EXCEPT !.call = TRUE,
                               !.retd = TRUE, !.ret = accessToken]
                 /\ UNCHANGED <<pendingStates, issued>>
            ELSE /\ issued < MaxStates
                 /\ pendingStates' = GenerateAuthUrl(pendingStates, issued + 1, now)
                 /\ issued' = issued + 1
                 /\ out' = [Ev("send-sms") EXCEPT !.call = TRUE,
                               !.retd = TRUE, !.status = 401]
                 /\ UNCHANGED inflight
       ELSE IF ~CanRefresh(tokenStorage)
       THEN /\ issued < MaxStates
            /\ pendingStates' = GenerateAuthUrl(pendingStates, issued + 1, now)
            /\ issued' = issued + 1
            /\ out' = [Ev("send-sms") EXCEPT !.call = TRUE,
                          !.retd = TRUE, !.status = 401]
            /\ UNCHANGED inflight
       ELSE /\ inflight' = Begin(Handler("send", "refresh", Null, 1))
            /\ out' = [Ev("send-sms") EXCEPT !.call = TRUE, !.nRefresh = 1]
            /\ UNCHANGED <<pendingStates, issued>>
    /\ UNCHANGED <<now, tokenStorage, lastSweep, stored, passed, swept>>

\* /api/send-sms after the refresh request of refreshAccessToken settled:
\* ok with token response r, or rejected; then the rest of the handler up to
\* the await of the messaging call or to its 401 response
RefreshReturn(h, ok, r) ==
    /\ h.kind = "send"
    /\ h.pc = "refresh"
    /\ IF ok
       THEN /\ tokenStorage' = SetTokens(tokenStorage, r, now)
            /\ stored' = StoredAt(r, now)
       ELSE /\ tokenStorage' = ClearTokens(tokenStorage)
            /\ stored' = NotStored
    /\ LET accessToken == IF ok THEN GetAccessToken(tokenStorage', now) ELSE Null IN
       IF Truthy(accessToken)
       THEN /\ inflight' = Move(h, Handler("send", "sms", accessToken, 0))
            /\ out' = [Ev("refresh") EXCEPT !.ok = ok, !.tok = r.access_token,
                          !.retd = TRUE, !.ret = accessToken,
                          !.nRefresh = h.nRefresh]
            /\ UNCHANGED <<pendingStates, issued>>
       ELSE /\ issued < MaxStates
            /\ pendingStates' = GenerateAuthUrl(pendingStates, issued + 1, now)
            /\ issued' = issued + 1
            /\ inflight' = End(h)
            /\ out' = [Ev("refresh") EXCEPT !.ok = ok, !.tok = r.access_token,
                          !.retd = TRUE, !.status = 401,
                          !.nRefresh = h.nRefresh]
    /\ UNCHANGED <<now, lastSweep, passed, swept>>

\* /api/send-sms after axios.request(options) settled with result
SmsReturn(h, result) ==
    /\ h.kind = "send"
    /\ h.pc = "sms"
    /\ inflight' = End(h)
    /\ tokenStorage' = AfterSms(tokenStorage, result)
    /\ IF result = 401
       THEN /\ issued < MaxStates
            /\ stored' = NotStored
            /\ pendingStates' = GenerateAuthUrl(pendingStates, issued + 1, now)
            /\ issued' = issued + 1
            /\ out' = [Ev("sms") EXCEPT !.status = 401]
       ELSE /\ out' = [Ev("sms") EXCEPT !.status = IF result = 200 THEN 200 ELSE 500]
            /\ UNCHANGED <<stored, pendingStates, issued>>
    /\ UNCHANGED <<now, lastSweep, passed, swept>>

Next ==
    \/ \E t \in Instants : Tick(t)
    \/ Sweep
    \/ AuthNew
    \/ AuthStatus
    \/ ReAuthenticate
    \/ \E st \in StateIds \cup {Null}, code \in BOOLEAN : CallbackStart(st, code)
    \/ \E h \in Awaiting("exchange"), r \in Responses : ExchangeReturn(h, TRUE, r)
    \/ \E h \in Awaiting("exchange") : ExchangeReturn(h, FALSE, NoResponse)
    \/ \E h \in Awaiting("sms"), result \in SmsResults : CallbackSmsReturn(h, result)
    \/ \E input \in SendInputs : SendSmsStart(input)
    \/ \E h \in Awaiting("refresh"), r \in Responses : RefreshReturn(h, TRUE, r)
    \/ \E h \in Awaiting("refresh") : RefreshReturn(h, FALSE, NoResponse)
    \/ \E h \in Awaiting("sms"), result \in SmsResults : SmsReturn(h, result)

Spec == Init /\ [][Next]_vars

\* the server with a sweep timer that fires every SweepIntervalMs exactly,
\* taking at most MaxTimerInflight requests at a time
NextTimer ==
    \/ \E t \in TimerInstants : TimerTick(t)
    \/ Sweep
    \/ AuthNew
    \/ AuthStatus
    \/ ReAuthenticate
    \/ /\ BagCardinality(inflight) < MaxTimerInflight
       /\ \E st \in StateIds \cup {Null}, code \in BOOLEAN : CallbackStart(st, code)
    \/ \E h \in Awaiting("exchange"), r \in Responses : ExchangeReturn(h, TRUE, r)
    \/ \E h \in Awaiting("exchange") : ExchangeReturn(h, FALSE, NoResponse)
    \/ \E h \in Awaiting("sms"), result \in SmsResults : CallbackSmsReturn(h, result)
    \/ /\ BagCardinality(inflight) < MaxTimerInflight
       /\ \E input \in SendInputs : SendSmsStart(input)
    \/ \E h \in Awaiting("refresh"), r \in Responses : RefreshReturn(h, TRUE, r)
    \/ \E h \in Awaiting("refresh") : RefreshReturn(h, FALSE, NoResponse)
    \/ \E h \in Awaiting("sms"), result \in SmsResults : SmsReturn(h, result)

SpecTimer == Init /\ [][NextTimer]_vars

TypeOK ==
    /\ now \in Instants
    /\ issued \in StateIds
    /\ DOMAIN pendingStates \subseteq 1..issued
    /\ BagCardinality(inflight) <= MaxInflight

(* ------------------------------ claims -------------------------------- *)
Cleared == [accessToken |-> Null, refreshToken |-> Null, expiresAt |-> Null]

\* C1: a state is accepted by the callback's state check at most once, and a
\* callback presenting a state that was accepted before is answered 403.
C1_StateAcceptedOnce ==
    [][ /\ \A s \in StateIds : passed'[s] <= 1
        /\ (out'.op = "callback" /\ out'.state \in StateIds /\ passed[out'.state] >= 1)
              => out'.status = 403 ]_vars

C1_Witness ==
    /\ out.op = "callback"
    /\ out.status = 403
    /\ out.state \in StateIds
    /\ passed[out.state] = 1

\* C2: a callback whose state is missing or not in the registry is answered
\* 403, starts no network call and leaves the token store and the registry
\* as they were.
C2_InvalidStateNoEffect ==
    [][ (out'.op = "callback" /\ (out'.state = Null \/ out'.state \notin DOMAIN pendingStates))
           => /\ out'.status = 403
              /\ tokenStorage' = tokenStorage
              /\ pendingStates' = pendingStates
              /\ inflight' = inflight ]_vars

C2_Witness ==
    /\ out.op = "callback"
    /\ out.status = 403
    /\ out.state = Null
    /\ Truthy(tokenStorage.accessToken)
    /\ DOMAIN pendingStates # {}

\* C3: right after a sweep no entry older than the TTL is left, and a
\* callback presenting a state that was older than the TTL at a sweep is
\* answered 403, consumed or not.
C3_SweptStateRejected ==
    /\ out.op = "sweep" =>
          \A s \in DOMAIN pendingStates : now - pendingStates[s].timestamp <= StateTtlMs
    /\ (out.op = "callback" /\ out.state \in swept) => out.status = 403

C3_Witness ==
    /\ out.op = "callback"
    /\ out.state \in swept
    /\ passed[out.state] = 0
    /\ out.status = 403

\* C4: getAccessToken() yields the stored access token only while
\* isTokenValid() holds and null otherwise, also where getValidAccessToken
\* hands its result to a handler.
C4_NoStaleToken ==
    /\ ~IsTokenValid(tokenStorage, now) => GetAccessToken(tokenStorage, now) = Null
    /\ GetAccessToken(tokenStorage, now) # Null =>
          /\ IsTokenValid(tokenStorage, now)
          /\ GetAccessToken(tokenStorage, now) = tokenStorage.accessToken
    /\ (out.retd /\ out.ret # Null) =>
          /\ IsTokenValid(tokenStorage, now)
          /\ out.ret = tokenStorage.accessToken

C4_Witness ==
    /\ Truthy(tokenStorage.accessToken)
    /\ stored.expires_in = 3600
    /\ now >= tokenStorage.expiresAt
    /\ now > stored.at
    /\ GetAccessToken(tokenStorage, now) = Null

\* C5: while isTokenValid() holds, the time is strictly before the instant
\* the record was stored plus the lifetime the provider declared for it.
C5_ValidBeforeTrueExpiry ==
    (IsTokenValid(tokenStorage, now) /\ stored.expires_in # Undefined)
        => now < stored.at + stored.expires_in * 1000

\* C6: the stored expiry is the storing instant plus (E - 60) seconds, E the
\* provider's expires_in or 3600 when it is absent, and for E > 60 the token
\* is valid exactly at the instants before that expiry.
C6_ExpiryFromDeclaredLifetime ==
    Truthy(tokenStorage.accessToken) =>
        LET E == IF stored.expires_in = Undefined THEN 3600 ELSE stored.expires_in
            expiry == stored.at + (E - 60) * 1000
        IN /\ tokenStorage.expiresAt = expiry
           /\ E > 60 => (IsTokenValid(tokenStorage, now) <=> now < expiry)

\* C7: getValidAccessToken called on a valid store returns the cached access
\* token at once, sends no request to the token endpoint and leaves the
\* token store as it was.
C7_CachedTokenServed ==
    [][ (out'.call /\ IsTokenValid(tokenStorage, now))
           => /\ out'.retd
              /\ out'.ret = tokenStorage.accessToken
              /\ out'.nRefresh = 0
              /\ tokenStorage' = tokenStorage
              /\ inflight' = inflight (+)
                    SetToBag({Handler("send", "sms", tokenStorage.accessToken, 0)}) ]_vars

C7_Witness ==
    /\ out.op = "send-sms"
    /\ out.call
    /\ out.retd
    /\ out.ret # Null
    /\ Truthy(tokenStorage.refreshToken)
    /\ now > stored.at

\* C8: a refresh the provider accepts was the only refresh request of that
\* call, and the call returns the access token of the provider's response.
C8_RefreshReturnsNewToken ==
    (out.op = "refresh" /\ out.ok)
        => /\ out.nRefresh = 1
           /\ out.retd
           /\ out.ret = out.tok

\* C9: getValidAccessToken on a store that is not valid and holds no refresh
\* token returns null at once, sends no request and leaves the token store
\* as it was.
C9_NoRefreshToken ==
    [][ (out'.call /\ ~IsTokenValid(tokenStorage, now) /\ tokenStorage.refreshToken = Null)
           => /\ out'.retd
              /\ out'.ret = Null
              /\ out'.nRefresh = 0
              /\ tokenStorage' = tokenStorage
              /\ inflight' = inflight ]_vars

C9_Witness ==
    /\ out.op = "send-sms"
    /\ out.call
    /\ out.retd
    /\ out.ret = Null
    /\ out.status = 401
    /\ Truthy(tokenStorage.accessToken)
    /\ tokenStorage.refreshToken = Null

\* C10: when the provider rejects a refresh, the token store is cleared
\* entirely as the refresh returns, the caller gets null (401), and the call
\* ends having sent that one refresh request only.
C10_RefreshFailureClears ==
    [][ (out'.op = "refresh" /\ ~out'.ok)
           => /\ tokenStorage' = Cleared
              /\ out'.retd
              /\ out'.ret = Null
              /\ out'.status = 401
              /\ out'.nRefresh = 1
              /\ BagCardinality(inflight') = BagCardinality(inflight) - 1
              /\ Awaiting("refresh")' \subseteq Awaiting("refresh") ]_vars

C10_Witness ==
    /\ out.op = "refresh"
    /\ ~out.ok
    /\ out.status = 401
    /\ tokenStorage = Cleared

\* C11: whenever the messaging API answers 401 to a send of /api/send-sms or
\* of the OAuth callback, the token store is cleared when that handler
\* responds.
C11_Downstream401Clears ==
    [][ ((\E h \in Awaiting("sms") : SmsReturn(h, 401))
            \/ (\E h \in Awaiting("sms") : CallbackSmsReturn(h, 401)))
           => tokenStorage' = Cleared ]_vars

\* the token lifecycle: Unauthenticated (no access token stored), Valid
\* (isTokenValid()), Expired (an access token stored that is not valid)
Lifecycle(ts, t) ==
    IF ~Truthy(ts.accessToken) THEN "Unauthenticated"
    ELSE IF IsTokenValid(ts, t) THEN "Valid" ELSE "Expired"

\* C12 as claimed: the lifecycle changes only from Unauthenticated to Valid
\* on a successful code exchange, from Valid to Expired by passage of time,
\* from Expired to Valid on a successful refresh, from Expired to
\* Unauthenticated on a failed refresh, and from Valid or Expired to
\* Unauthenticated on clear (re-authenticate or a downstream 401).
C12_LifecycleAsClaimed ==
    [][ LET a == Lifecycle(tokenStorage, now)
            b == Lifecycle(tokenStorage', now')
        IN a # b =>
             \/ a = "Unauthenticated" /\ b = "Valid" /\ out'.op = "exchange" /\ out'.ok
             \/ a = "Valid" /\ b = "Expired" /\ out'.op = "tick"
             \/ a = "Expired" /\ b = "Valid" /\ out'.op = "refresh" /\ out'.ok
             \/ a = "Expired" /\ b = "Unauthenticated" /\ out'.op = "refresh" /\ ~out'.ok
             \/ /\ a \in {"Valid", "Expired"}
                /\ b = "Unauthenticated"
                /\ \/ out'.op = "re-authenticate"
                   \/ out'.op = "sms" /\ out'.status = 401 ]_vars

\* C12 (amended): the lifecycle changes only to Valid or Expired on a
\* successful code exchange or refresh (from any state), from Valid to
\* Expired by passage of time, and to Unauthenticated on a failed refresh, a
\* re-authenticate request or a 401 answered to the send of /api/send-sms.
C12_LifecycleTransitions ==
    [][ LET a == Lifecycle(tokenStorage, now)
            b == Lifecycle(tokenStorage', now')
        IN a # b =>
             \/ b \in {"Valid", "Expired"} /\ out'.op \in {"exchange", "refresh"} /\ out'.ok
             \/ a = "Valid" /\ b = "Expired" /\ out'.op = "tick"
             \/ /\ b = "Unauthenticated"
                /\ \/ out'.op = "refresh" /\ ~out'.ok
                   \/ out'.op = "re-authenticate"
                   \/ out'.op = "sms" /\ out'.status = 401 ]_vars

C12_Witness ==
    /\ out.op = "tick"
    /\ Lifecycle(tokenStorage, now) = "Expired"
    /\ stored.expires_in = 3600
    /\ now = stored.at + (3600 - 60) * 1000

\* the handlers that sent their request to the messaging API in this step
SentSms ==
    {h \in BagToSet(inflight') :
        h.pc = "sms" /\ (h \notin BagToSet(inflight) \/ inflight'[h] > inflight[h])}

\* C13: every request sent to the messaging API carries an access
\* token that getValidAccessToken returned during the handling of that
\* request.
C13_EverySendViaGateway ==
    [][ \A h \in SentSms :
           out'.retd /\ Truthy(h.token) /\ out'.ret = h.token ]_vars

\* the refresh requests sent to the provider and not yet answered
RefreshesInFlight ==
    BagCardinality([h \in Awaiting("refresh") |-> inflight[h]])

\* C14: /api/send-sms requests handled concurrently against a non-valid store
\* that holds a refresh token send at most one refresh request: two refresh
\* requests are never outstanding together.
C14_SingleRefreshInFlight == RefreshesInFlight <= 1

\* C15: when getValidAccessToken returns null to /api/send-sms (no refresh
\* token, or the refresh failed), the handler answers 401, puts exactly one
\* new state into the registry, stamped with the current time, and sends
\* nothing to the messaging API.
C15_AuthRequiredAnswer ==
    [][ (out'.op \in {"send-sms", "refresh"} /\ out'.retd /\ ~Truthy(out'.ret))
           => /\ out'.status = 401
              /\ SentSms = {}
              /\ Awaiting("sms") = {h \in BagToSet(inflight') : h.pc = "sms"}
              /\ issued' = issued + 1
              /\ issued + 1 \notin DOMAIN pendingStates
              /\ DOMAIN pendingStates' = DOMAIN pendingStates \cup {issued + 1}
              /\ pendingStates'[issued + 1].timestamp = now'
              /\ \A st \in DOMAIN pendingStates : pendingStates'[st] = pendingStates[st] ]_vars

C15_Witness ==
    /\ out.op = "refresh"
    /\ out.retd
    /\ ~Truthy(out.ret)
    /\ ~out.ok
    /\ out.status = 401
    /\ issued \in DOMAIN pendingStates
    /\ pendingStates[issued].timestamp = now

\* C16: right after a successful code exchange or a successful refresh the
\* store is Valid: isTokenValid() is true and getAccessToken() returns the
\* access token just received, whatever response the provider returned.
C16_ValidAfterStore ==
    (out.op \in {"exchange", "refresh"} /\ out.ok)
        => /\ IsTokenValid(tokenStorage, now)
           /\ GetAccessToken(tokenStorage, now) = out.tok

\* C17: when the provider rejects the code exchange, the callback answers an
\* error (500), sends nothing to the messaging API and leaves the token store
\* exactly as it was.
C17_ExchangeFailureKeepsStore ==
    [][ /\ out'.op = "callback" => tokenStorage' = tokenStorage
        /\ (\E h \in Awaiting("exchange") : ExchangeReturn(h, FALSE, NoResponse))
           => /\ out'.status = 500
              /\ tokenStorage' = tokenStorage
              /\ SentSms = {}
              /\ BagCardinality(inflight') = BagCardinality(inflight) - 1 ]_vars

C17_Witness ==
    /\ out.op = "exchange"
    /\ ~out.ok
    /\ out.status = 500
    /\ IsTokenValid(tokenStorage, now)
    /\ Truthy(tokenStorage.refreshToken)

C19_ReAuthenticateResets ==
    [][ out'.op = "re-authenticate"
           => /\ tokenStorage' = Cleared
              /\ Lifecycle(tokenStorage', now') = "Unauthenticated"
              /\ issued + 1 \notin DOMAIN pendingStates
              /\ DOMAIN pendingStates' = DOMAIN pendingStates \cup {issued + 1}
              /\ \A st \in DOMAIN pendingStates : pendingStates'[st] = pendingStates[st]
              /\ inflight' = inflight ]_vars

C19_Witness ==
    /\ out.op = "re-authenticate"
    /\ tokenStorage = Cleared
    /\ issued \in DOMAIN pendingStates
    /\ Awaiting("sms") # {}

\* C20: a callback with a registered state and no authorization code is
\* answered 400 without a call to the token endpoint or the messaging API,
\* and leaves the token store unchanged.
C20_MissingCodeRejected ==
    [][ (\E st \in DOMAIN pendingStates : CallbackStart(st, FALSE))
           => /\ out'.status = 400
              /\ inflight' = inflight
              /\ tokenStorage' = tokenStorage ]_vars

C20_Witness ==
    /\ out.op = "callback"
    /\ out.status = 400
    /\ out.state \in StateIds
    /\ Truthy(tokenStorage.accessToken)

\* C21: with the sweep timer firing every 5 minutes, no entry is in the
\* registry more than 15 minutes (TTL plus one interval) after it was issued,
\* and an entry leaves the registry once: by the callback that presents it or
\* by the sweep, never to come back.
C21_RemovedWithinDeadline ==
    /\ [](\A s \in DOMAIN pendingStates :
             now - pendingStates[s].timestamp <= StateTtlMs + SweepIntervalMs)
    /\ [][ \A s \in 1..issued :
              /\ s \notin DOMAIN pendingStates => s \notin DOMAIN pendingStates'
              /\ (s \in DOMAIN pendingStates /\ s \notin DOMAIN pendingStates')
                    => \/ out'.op = "sweep" /\ now - pendingStates[s].timestamp > StateTtlMs
                       \/ out'.op = "callback" /\ out'.state = s ]_vars

C21_Witness ==
    /\ out.op = "sweep"
    /\ now = StartTime + StateTtlMs + SweepIntervalMs
    /\ 1 \in swept
    /\ passed[1] = 0
    /\ 1 \notin DOMAIN pendingStates

\* C22: however the sweep interleaves with issuance and callbacks, it removes
\* no entry whose age is at most the TTL, leaves the token store and the
\* handlers in flight alone, lets no state pass the state check twice, and a
\* callback is answered 403 only when the state it presents is not in the
\* registry.
C22_SweepInterleavesSafely ==
    [][ /\ out'.op = "sweep"
           => /\ \A s \in DOMAIN pendingStates :
                    now - pendingStates[s].timestamp <= StateTtlMs
                       => s \in DOMAIN pendingStates' /\ pendingStates'[s] = pendingStates[s]
              /\ tokenStorage' = tokenStorage
              /\ inflight' = inflight
              /\ passed' = passed
              /\ issued' = issued
        /\ \A s \in StateIds : passed'[s] <= 1
        /\ out'.op = "callback"
           => (out'.status = 403 <=> out'.state \notin DOMAIN pendingStates) ]_vars

C22_Witness ==
    /\ out.op = "sweep"
    /\ \E s \in DOMAIN pendingStates : now - pendingStates[s].timestamp = StateTtlMs
    /\ Awaiting("exchange") # {}

\* C23: when the messaging API fails a /api/send-sms send with anything but
\* 401 (another error status or a network error), the handler answers the
\* error (500), the token store is unchanged, so what getAccessToken() yields
\* is unchanged, and no state is issued.
C23_OtherSmsErrorKeepsStore ==
    [][ (\E h \in Awaiting("sms"), result \in SmsResults \ {200, 401} : SmsReturn(h, result))
           => /\ out'.status = 500
              /\ tokenStorage' = tokenStorage
              /\ GetAccessToken(tokenStorage', now') = GetAccessToken(tokenStorage, now)
              /\ pendingStates' = pendingStates
              /\ issued' = issued ]_vars

C23_Witness ==
    /\ out.op = "sms"
    /\ out.status = 500
    /\ IsTokenValid(tokenStorage, now)
    /\ Truthy(tokenStorage.refreshToken)

\* C24: a callback presenting a registered state consumes it before anything
\* else is checked: with or without a code the state is out of the registry
\* when the handler's first segment ends, it stays out whatever the exchange
\* and the send then do, and a later callback with it is answered 403.
C24_StateConsumedFirst ==
    [][ /\ out'.op = "callback"
           => \A st \in DOMAIN pendingStates \cap {out'.state}, code \in BOOLEAN :
                 CallbackStart(st, code)
                    => st \notin DOMAIN pendingStates' /\ passed'[st] = passed[st] + 1
        /\ \A s \in StateIds : passed[s] >= 1 => s \notin DOMAIN pendingStates'
        /\ (out'.op = "callback" /\ out'.state \in StateIds /\ passed[out'.state] >= 1)
              => out'.status = 403 /\ passed' = passed ]_vars

C24_Witness ==
    /\ out.op = "callback"
    /\ out.status = 400
    /\ out.state \in StateIds
    /\ passed[out.state] = 1
    /\ out.state \notin DOMAIN pendingStates

\* C25: no callback presenting a state issued more than the TTL (10 minutes)
\* earlier passes the state check, swept or not.
C25_NoAcceptancePastTtl ==
    [][ (/\ out'.op = "callback"
         /\ out'.state \in DOMAIN pendingStates
         /\ now - pendingStates[out'.state].timestamp > StateTtlMs)
           => out'.status = 403 ]_vars

\* C26: in every reachable state of the token store the access token is
\* absent exactly when the expiry instant is absent, and a stored refresh
\* token comes with a stored access token.
C26_StoreFieldsTogether ==
    /\ tokenStorage.accessToken = Null <=> tokenStorage.expiresAt = Null
    /\ tokenStorage.refreshToken # Null => tokenStorage.accessToken # Null

C26_Witness ==
    /\ out.op = "sms"
    /\ out.status = 401
    /\ tokenStorage = Cleared
    /\ Awaiting("refresh") # {}

\* C27: a failure clears only the record it pertains to: when the step before
\* stored a new record (a successful exchange, or a successful refresh of
\* another handler) and now a send that was already in flight is answered
\* 401, or a refresh that was already in flight is rejected, the new record
\* is not cleared.
C27_FailureSparesNewerRecord ==
    [][ (/\ out.ok
         /\ \/ /\ out.op \in {"exchange", "refresh"}
               /\ \E h \in Awaiting("refresh") : RefreshReturn(h, FALSE, NoResponse)
            \/ /\ out.op = "exchange"
               /\ \E h \in Awaiting("sms") : SmsReturn(h, 401))
           => tokenStorage' = tokenStorage ]_vars

====
